---- MODULE Spec2Model ----
(***************************************************************************)
(* mux-monitor: the Monitor (constructor, Prometheus middleware,           *)
(* CollectDependencyTime, AddDependencyChecker) and the ResponseWriter     *)
(* interceptor, as a state machine over the metrics backend.               *)
(***************************************************************************)
EXTENDS Integers, Sequences, FiniteSets, TLC

(***************************************************************************)
(* Bounds of the model.                                                    *)
(***************************************************************************)
NumRequests == 2      \* requests that may be in flight together
MaxOps == 4           \* operations of the environment in a run of Spec
MaxReqOps == 4        \* operations of the environment in a run of SpecReq
MaxDepOps == 6        \* operations of the environment in a run of SpecDep

(***************************************************************************)
(* Program constants.                                                      *)
(***************************************************************************)
DOWN == 0
UP == 1
StatusOK == 200
DefaultErrorMessageKey == "error-message"

(***************************************************************************)
(* Input sets.                                                             *)
(***************************************************************************)
Requests == 1..NumRequests
StatusCodes == {199, 200, 399, 400}
\* application versions as character sequences (TrimSpace works on characters)
Versions == {<< >>, <<" ">>, <<" ", "\t">>, <<"v", "1">>, <<" ", "v", "2", " ">>}
KeyArgs == {"", "error-message"}
Methods == {"GET"}
Protos == {"HTTP/1.1"}
\* what mux.CurrentRoute gives: no route, a route without a path template, a route
RouteNil == "<nil>"
RouteNoTemplate == "<no template>"
\* the requests that arrive: what the router matched and the values of the error
\* header sent (none or one)
Arrivals == {<<RouteNil, << >> >>, <<RouteNoTemplate, << >> >>, <<"/x", << >> >>,
             <<"/x", <<"boom">> >>}
HandlerValues == {"oops"}
Durations == {2}
\* len(b) of a Write call, and what the underlying Write may return for it: all of
\* b written, or a short count (which comes with an error)
WriteLens == {2}
WriteResults == {1, 2}
Classifiers == {"IsStatusError", "custom"}
Checkers == {"c1", "c2"}
DependencyNames == {"db", "cache"}
Periods == {1, 2}

NoMonitor == [constructed |-> FALSE]

VARIABLES
  monitor,                \* the Monitor New returned, or NoMonitor
  newOutcome,             \* the last call of New: its version argument, how it ended
  registry,               \* names registered with the default registerer
  reqDuration,            \* request_seconds: label tuple -> [count, sum]
  respSize,               \* response_size_bytes: label tuple -> value
  dependencyReqDuration,  \* dependency_request_seconds: label tuple -> [count, sum]
  dependencyUP,           \* dependency_up: name -> value
  applicationInfo,        \* application_info: version -> value
  pc,                     \* per request: where the middleware is
  req,                    \* per request: the *http.Request
  rw,                     \* per request: the ResponseWriter interceptor
  path,                   \* per request: the path template read before next
  inflight,               \* per request: Write calls past the underlying Write
  seen,                   \* per request: what the inner handler did (history)
  rec,                    \* per request: the arguments of collectTime/collectSize
  now,                    \* the clock
  task,                   \* per checker: the goroutine of AddDependencyChecker
  checkerStatus,          \* per checker: what Check answers at the moment
  checks,                 \* per checker: history of Check results
  collected,              \* history of CollectDependencyTime calls
  budget                  \* operations the environment may still start

backend == <<registry, reqDuration, respSize, dependencyReqDuration, dependencyUP,
             applicationInfo>>
reqVars == <<pc, req, rw, path, inflight, seen, rec>>
depVars == <<now, task, checkerStatus, checks>>
vars == <<monitor, newOutcome, backend, reqVars, depVars, collected, budget>>

(***************************************************************************)
(* Pure functions.                                                         *)
(***************************************************************************)
IsSpace(c) == c \in {" ", "\t", "\n", "\r"}

RECURSIVE TrimLeft(_)
TrimLeft(s) == IF s # << >> /\ IsSpace(Head(s)) THEN TrimLeft(Tail(s)) ELSE s

RECURSIVE TrimRight(_)
TrimRight(s) ==
  IF s # << >> /\ IsSpace(s[Len(s)]) THEN TrimRight(SubSeq(s, 1, Len(s) - 1)) ELSE s

\* strings.TrimSpace
TrimSpace(s) == TrimRight(TrimLeft(s))

Digit(d) ==
  CASE d = 0 -> "0" [] d = 1 -> "1" [] d = 2 -> "2" [] d = 3 -> "3" [] d = 4 -> "4"
    [] d = 5 -> "5" [] d = 6 -> "6" [] d = 7 -> "7" [] d = 8 -> "8" [] d = 9 -> "9"

RECURSIVE FormatUint(_)
FormatUint(n) == IF n < 10 THEN Digit(n) ELSE FormatUint(n \div 10) \o Digit(n % 10)

\* strconv.Itoa
Itoa(n) == IF n < 0 THEN "-" \o FormatUint(0 - n) ELSE FormatUint(n)

\* strconv.FormatBool
FormatBool(b) == IF b THEN "true" ELSE "false"

\* textproto.CanonicalMIMEHeaderKey on the keys of the model
CanonicalMIMEHeaderKey(k) ==
  CASE k = "error-message" -> "Error-Message"
    [] k = "Error-Message" -> "Error-Message"
    [] OTHER -> k

HeaderKeys == {"Error-Message", ""}
NoHeader == [k \in HeaderKeys |-> << >>]

\* http.Header.Get: the first value of the canonical key, "" when there is none
HeaderGet(h, k) ==
  LET v == h[CanonicalMIMEHeaderKey(k)] IN IF v = << >> THEN "" ELSE v[1]

\* http.Header.Del
HeaderDel(h, k) == [h EXCEPT ![CanonicalMIMEHeaderKey(k)] = << >>]

\* http.Header.Set
HeaderSet(h, k, v) == [h EXCEPT ![CanonicalMIMEHeaderKey(k)] = <<v>>]

\* a classifier that forgets the codes below 200
IsStatusErrorFrom400(statusCode) == statusCode >= 400

\* the package's default classifier
IsStatusError(statusCode) == statusCode < 200 \/ statusCode >= 400

\* a classifier the embedding application assigns to Monitor.IsStatusError
CustomIsError(statusCode) == statusCode >= 300

\* m.IsStatusError(code)
CallIsStatusError(m, statusCode) ==
  IF m.IsStatusError = "IsStatusError" THEN IsStatusError(statusCode)
  ELSE CustomIsError(statusCode)

(***************************************************************************)
(* ResponseWriter.                                                         *)
(***************************************************************************)
NewResponseWriter == [statusCode |-> StatusOK, count |-> 0]

StatusCodeStr(r) == Itoa(r.statusCode)

\* a counter that keeps the last count instead of the sum
StoreUint64(old, delta) == delta

\* atomic.AddUint64 (the counts of the model stay far below 2^64)
AtomicAddUint64(old, delta) == old + delta

Count(r) == r.count

(***************************************************************************)
(* The metrics backend: children are created on first use.                 *)
(***************************************************************************)
HistogramObserve(h, labels, v) ==
  IF labels \in DOMAIN h
  THEN [h EXCEPT ![labels] = [count |-> @.count + 1, sum |-> @.sum + v]]
  ELSE h @@ (labels :> [count |-> 1, sum |-> v])

CounterAdd(c, labels, v) ==
  IF labels \in DOMAIN c THEN [c EXCEPT ![labels] = @ + v] ELSE c @@ (labels :> v)

GaugeSet(g, labels, v) ==
  IF labels \in DOMAIN g THEN [g EXCEPT ![labels] = v] ELSE g @@ (labels :> v)

Empty == [x \in {} |-> 0]

SeriesNames == {"request_seconds", "response_size_bytes", "dependency_up",
                "dependency_request_seconds", "application_info"}

(***************************************************************************)
(* New.                                                                    *)
(***************************************************************************)
\* the key New stores: the default is chosen on the version test, as the code has it
StoredErrorMessageKey(applicationVersion, errorMessageKey) ==
  IF TrimSpace(applicationVersion) = << >> THEN DefaultErrorMessageKey
  ELSE errorMessageKey

\* the sample labelled with the trimmed version
SetApplicationInfoTrimmed(applicationVersion) ==
  GaugeSet(applicationInfo, TrimSpace(applicationVersion), 1)

\* monitor.applicationInfo.WithLabelValues(applicationVersion).Set(1)
SetApplicationInfo(applicationVersion) ==
  GaugeSet(applicationInfo, applicationVersion, 1)

\* a validation that rejects the empty version only
VersionRejectedIfEmpty(applicationVersion) == applicationVersion = << >>

\* the first validation of New
VersionRejected(applicationVersion) == TrimSpace(applicationVersion) = << >>

New(applicationVersion, errorMessageKey) ==
  /\ budget > 0
  /\ budget' = budget - 1
  /\ IF VersionRejected(applicationVersion)
     THEN \* return nil, errors.New(...)
          /\ newOutcome' = [result |-> "error", version |-> applicationVersion]
          /\ UNCHANGED <<monitor, backend>>
     ELSE IF registry # {}
     THEN \* promauto registers with MustRegister: a second registration panics
          /\ newOutcome' = [result |-> "panic", version |-> applicationVersion]
          /\ UNCHANGED <<monitor, backend>>
     ELSE /\ newOutcome' = [result |-> "ok", version |-> applicationVersion]
          /\ monitor' = [constructed |-> TRUE,
                         errorMessageKey |->
                           StoredErrorMessageKey(applicationVersion, errorMessageKey),
                         IsStatusError |-> "IsStatusError"]
          /\ registry' = SeriesNames
          /\ applicationInfo' = SetApplicationInfo(applicationVersion)
          /\ UNCHANGED <<reqDuration, respSize, dependencyReqDuration, dependencyUP>>
  /\ UNCHANGED <<reqVars, depVars, collected>>

\* the embedding application assigns the exported field Monitor.IsStatusError
SetIsStatusError(f) ==
  /\ monitor.constructed
  /\ monitor.IsStatusError # f
  /\ budget > 0
  /\ budget' = budget - 1
  /\ monitor' = [monitor EXCEPT !.IsStatusError = f]
  /\ UNCHANGED <<newOutcome, backend, reqVars, depVars, collected>>

(***************************************************************************)
(* Monitor.Prometheus: the handler it returns, one process per request.    *)
(***************************************************************************)
\* history of a request: the last code given to WriteHeader (0: none) and the number
\* of such calls, the Write calls with the sums of len(b) and of the counts returned,
\* the error header as sent and as the handler left it, the classifier at the end
NoSeen == [explicit |-> 0, codes |-> 0, lens |-> 0, ns |-> 0, writes |-> 0,
           inbound |-> << >>, current |-> << >>, sets |-> 0, classifier |-> ""]
NoRec == [labels |-> << >>, seconds |-> 0, size |-> 0, times |-> 0, sizes |-> 0]
NoRequest == [Proto |-> "", Method |-> "", Header |-> NoHeader]
NoInflight == [n \in WriteResults |-> 0]

\* route.GetPathTemplate() for a route that is not nil; the error is dropped
GetPathTemplate(route) == IF route = RouteNoTemplate THEN "" ELSE route

\* the handler starts: NewResponseWriter, CurrentRoute, GetPathTemplate, next.ServeHTTP
Arrive(r, proto, method, route, inbound) ==
  /\ monitor.constructed
  /\ pc[r] = "idle"
  /\ r > 1 => pc[r - 1] # "idle"
  /\ budget > 0
  /\ budget' = budget - 1
  /\ req' = [req EXCEPT ![r] = [Proto |-> proto, Method |-> method,
                                Header |-> [NoHeader EXCEPT !["Error-Message"] = inbound]]]
  /\ rw' = [rw EXCEPT ![r] = NewResponseWriter]
  /\ seen' = [seen EXCEPT ![r] = [NoSeen EXCEPT !.inbound = inbound,
                                                !.current = inbound]]
  /\ IF route = RouteNil
     THEN \* GetPathTemplate reads a field of a nil *Route: the handler panics
          /\ pc' = [pc EXCEPT ![r] = "panicked"]
          /\ UNCHANGED path
     ELSE /\ path' = [path EXCEPT ![r] = GetPathTemplate(route)]
          /\ pc' = [pc EXCEPT ![r] = "handler"]
  /\ UNCHANGED <<monitor, newOutcome, backend, inflight, rec, depVars, collected>>

\* a status that keeps the first code set
SetStatusCodeOnce(writer, code) ==
  IF writer.statusCode = StatusOK THEN [writer EXCEPT !.statusCode = code] ELSE writer

\* r.statusCode = code
SetStatusCode(writer, code) == [writer EXCEPT !.statusCode = code]

\* the inner handler calls w.WriteHeader(code)
WriteHeader(r, code) ==
  /\ pc[r] = "handler"
  /\ budget > 0
  /\ budget' = budget - 1
  /\ rw' = [rw EXCEPT ![r] = SetStatusCode(@, code)]
  /\ seen' = [seen EXCEPT ![r].explicit = code, ![r].codes = @ + 1]
  /\ UNCHANGED <<monitor, newOutcome, backend, pc, req, path, inflight, rec, depVars,
                 collected>>

\* the inner handler calls w.Write(b), len(b) = length: the underlying Write has
\* returned n (n < length comes with an error); the count is not yet added
Write(r, length, n) ==
  /\ pc[r] = "handler"
  /\ n <= length
  /\ budget > 0
  /\ budget' = budget - 1
  /\ inflight' = [inflight EXCEPT ![r][n] = @ + 1]
  /\ seen' = [seen EXCEPT ![r].lens = @ + length, ![r].ns = @ + n, ![r].writes = @ + 1]
  /\ UNCHANGED <<monitor, newOutcome, backend, pc, req, rw, path, rec, depVars,
                 collected>>

\* the second statement of Write: atomic.AddUint64(&r.count, uint64(n))
WriteCount(r, n) ==
  /\ pc[r] = "handler"
  /\ inflight[r][n] > 0
  /\ inflight' = [inflight EXCEPT ![r][n] = @ - 1]
  /\ rw' = [rw EXCEPT ![r].count = AtomicAddUint64(@, n)]
  /\ UNCHANGED <<monitor, newOutcome, backend, pc, req, path, seen, rec, depVars,
                 collected, budget>>

\* the inner handler sets the error header on the request, as the README shows
SetErrorHeader(r, v) ==
  /\ pc[r] = "handler"
  /\ budget > 0
  /\ budget' = budget - 1
  /\ req' = [req EXCEPT ![r].Header = HeaderSet(@, DefaultErrorMessageKey, v)]
  /\ seen' = [seen EXCEPT ![r].current = <<v>>, ![r].sets = @ + 1]
  /\ UNCHANGED <<monitor, newOutcome, backend, pc, rw, path, inflight, rec, depVars,
                 collected>>

\* label values with the error message read from the response writer's header, which
\* the inbound request and the handler's r.Header.Set do not reach
LabelsOfResponseHeader(m, request, writer, addr) ==
  <<request.Proto, StatusCodeStr(writer), request.Method, addr,
    FormatBool(CallIsStatusError(m, writer.statusCode)), "">>

\* the label values the middleware computes once next.ServeHTTP has returned
Labels(m, request, writer, addr) ==
  <<request.Proto, StatusCodeStr(writer), request.Method, addr,
    FormatBool(CallIsStatusError(m, writer.statusCode)),
    HeaderGet(request.Header, m.errorMessageKey)>>

collectTime(labels, durationSeconds) ==
  reqDuration' = HistogramObserve(reqDuration, labels, durationSeconds)

\* a size that replaces the child's value instead of adding to it
collectSizeSet(labels, size) ==
  respSize' = (labels :> size) @@ respSize

collectSize(labels, size) ==
  respSize' = CounterAdd(respSize, labels, size)

\* next.ServeHTTP returns (every Write call has returned): time.Since, the label
\* values, Header.Get and Header.Del, collectTime
Return(r, duration) ==
  /\ pc[r] = "handler"
  /\ inflight[r] = NoInflight
  /\ LET labels == Labels(monitor, req[r], rw[r], path[r]) IN
       /\ collectTime(labels, duration)
       /\ rec' = [rec EXCEPT ![r].labels = labels, ![r].seconds = duration,
                             ![r].times = @ + 1]
  /\ seen' = [seen EXCEPT ![r].classifier = monitor.IsStatusError]
  /\ req' = [req EXCEPT ![r].Header = HeaderDel(@, monitor.errorMessageKey)]
  /\ pc' = [pc EXCEPT ![r] = "size"]
  /\ UNCHANGED <<monitor, newOutcome, registry, respSize, dependencyReqDuration,
                 dependencyUP, applicationInfo, rw, path, inflight, depVars, collected,
                 budget>>

\* the last statement of the handler: collectSize(..., float64(respWriter.Count()))
CollectSize(r) ==
  /\ pc[r] = "size"
  /\ collectSize(rec[r].labels, Count(rw[r]))
  /\ rec' = [rec EXCEPT ![r].size = Count(rw[r]), ![r].sizes = @ + 1]
  /\ pc' = [pc EXCEPT ![r] = "done"]
  /\ UNCHANGED <<monitor, newOutcome, registry, reqDuration, dependencyReqDuration,
                 dependencyUP, applicationInfo, req, rw, path, inflight, seen, depVars,
                 collected, budget>>

(***************************************************************************)
(* Monitor.CollectDependencyTime.                                          *)
(***************************************************************************)
DependencyLabels == {<<"svc", "http", "200", "GET", "/x", "false", "">>,
                     <<"svc", "http", "500", "GET", "/x", "true", "boom">>}
Seconds == {10, 42}

\* label values handed on with addr and method exchanged
WithLabelValuesSwapped(name, reqType, status, method, addr, isError, errorMessage) ==
  <<name, reqType, status, addr, method, isError, errorMessage>>

\* m.dependencyReqDuration.WithLabelValues(name, reqType, status, method, addr, ...)
WithLabelValues(name, reqType, status, method, addr, isError, errorMessage) ==
  <<name, reqType, status, method, addr, isError, errorMessage>>

CollectDependencyTime(labels, durationSeconds) ==
  /\ monitor.constructed
  /\ budget > 0
  /\ budget' = budget - 1
  /\ dependencyReqDuration' =
       HistogramObserve(dependencyReqDuration,
                        WithLabelValues(labels[1], labels[2], labels[3], labels[4],
                                        labels[5], labels[6], labels[7]),
                        durationSeconds)
  /\ collected' = Append(collected, <<labels, durationSeconds>>)
  /\ UNCHANGED <<monitor, newOutcome, registry, reqDuration, respSize, dependencyUP,
                 applicationInfo, reqVars, depVars>>

(***************************************************************************)
(* Monitor.AddDependencyChecker: a ticker and a goroutine per call.        *)
(***************************************************************************)
\* running counts the calls of checker.Check() that have not returned
NoTask == [state |-> "none", name |-> "", period |-> 0, regAt |-> 0, tick |-> FALSE,
           status |-> DOWN, running |-> 0]
\* history of a checker: the Check calls that returned (counted up to 2), the last
\* two results, every result returned, and how often the dependency changed state
NoChecks == [done |-> 0, last |-> DOWN, prev |-> DOWN, results |-> {}, switches |-> 0]

\* an encoding with UP and DOWN exchanged
StatusValueInverted(status) == 1 - status

\* float64(status)
StatusValue(status) == status

AddDependencyChecker(c, name, checkingPeriod) ==
  /\ monitor.constructed
  /\ task[c].state = "none"
  /\ c = "c2" => task["c1"].state # "none"
  /\ c = "c1" => name = "db"
  /\ budget > 0
  /\ budget' = budget - 1
  /\ task' = [task EXCEPT ![c] = [NoTask EXCEPT !.state = "waiting", !.name = name,
                                                !.period = checkingPeriod,
                                                !.regAt = now]]
  /\ UNCHANGED <<monitor, newOutcome, backend, reqVars, now, checkerStatus, checks,
                 collected>>

\* a ticker that fires every unit of time, whatever its period
TickDueEveryUnit(t, time) == t.state # "none" /\ time > t.regAt

\* a ticker's channel holds one tick; a tick that finds it full is dropped
TickDue(t, time) ==
  t.state # "none" /\ time > t.regAt /\ (time - t.regAt) % t.period = 0

\* the clock advances by one unit; every ticker that is due sends its tick
TimePasses ==
  /\ budget > 0
  /\ budget' = budget - 1
  /\ now' = now + 1
  /\ task' = [c \in Checkers |->
                IF TickDue(task[c], now + 1) THEN [task[c] EXCEPT !.tick = TRUE]
                ELSE task[c]]
  /\ UNCHANGED <<monitor, newOutcome, backend, reqVars, checkerStatus, checks,
                 collected>>

\* the dependency behind a checker changes its state
Switch(c) ==
  /\ budget > 0
  /\ budget' = budget - 1
  /\ checkerStatus' = [checkerStatus EXCEPT ![c] = IF @ = UP THEN DOWN ELSE UP]
  /\ checks' = [checks EXCEPT ![c].switches = @ + 1]
  /\ UNCHANGED <<monitor, newOutcome, backend, reqVars, now, task, collected>>

\* a loop that takes the next tick whatever the previous one started is doing
\* (go checker.Check() for every tick)
AtSelectWhileChecking(t) == t.state # "none"

\* the goroutine is blocked in the select: Check and Set are called in the loop
\* body itself, so it is back at the select only when both have returned
AtSelect(t) == t.state = "waiting"

\* case <-ticker.C: the goroutine takes the tick and calls checker.Check()
Receive(c) ==
  /\ AtSelect(task[c])
  /\ task[c].tick
  /\ task' = [task EXCEPT ![c].tick = FALSE, ![c].state = "checking",
                          ![c].running = @ + 1]
  /\ UNCHANGED <<monitor, newOutcome, backend, reqVars, now, checkerStatus, checks,
                 collected, budget>>

\* status := checker.Check() returns
CheckReturns(c) ==
  /\ task[c].state = "checking"
  /\ task' = [task EXCEPT ![c].status = checkerStatus[c], ![c].state = "setting",
                          ![c].running = @ - 1]
  /\ checks' = [checks EXCEPT ![c] = [done |-> IF @.done < 2 THEN @.done + 1 ELSE 2,
                                      last |-> checkerStatus[c],
                                      prev |-> @.last,
                                      results |-> @.results \cup {checkerStatus[c]},
                                      switches |-> @.switches]]
  /\ UNCHANGED <<monitor, newOutcome, backend, reqVars, now, checkerStatus, collected,
                 budget>>

\* m.dependencyUP.WithLabelValues(checker.GetDependencyName()).Set(float64(status))
SetDependencyUP(c) ==
  /\ task[c].state = "setting"
  /\ dependencyUP' = GaugeSet(dependencyUP, task[c].name, StatusValue(task[c].status))
  /\ task' = [task EXCEPT ![c].state = "waiting"]
  /\ UNCHANGED <<monitor, newOutcome, registry, reqDuration, respSize,
                 dependencyReqDuration, applicationInfo, reqVars, now, checkerStatus,
                 checks, collected, budget>>

(***************************************************************************)
(* Specifications.                                                         *)
(***************************************************************************)
InitRequests ==
  /\ pc = [r \in Requests |-> "idle"]
  /\ req = [r \in Requests |-> NoRequest]
  /\ rw = [r \in Requests |-> NewResponseWriter]
  /\ path = [r \in Requests |-> ""]
  /\ inflight = [r \in Requests |-> NoInflight]
  /\ seen = [r \in Requests |-> NoSeen]
  /\ rec = [r \in Requests |-> NoRec]

InitCheckers ==
  /\ now = 0
  /\ task = [c \in Checkers |-> NoTask]
  /\ checkerStatus = [c \in Checkers |-> UP]
  /\ checks = [c \in Checkers |-> NoChecks]

InitSeries ==
  /\ reqDuration = Empty
  /\ respSize = Empty
  /\ dependencyReqDuration = Empty
  /\ dependencyUP = Empty
  /\ collected = << >>

\* before New: no Monitor, nothing registered
Init ==
  /\ monitor = NoMonitor
  /\ newOutcome = [result |-> "none", version |-> << >>]
  /\ registry = {}
  /\ applicationInfo = Empty
  /\ InitSeries
  /\ InitRequests
  /\ InitCheckers
  /\ budget = MaxOps

\* after New(version, key, nil) has returned a Monitor
Constructed(version, key) ==
  /\ monitor = [constructed |-> TRUE,
                errorMessageKey |-> StoredErrorMessageKey(version, key),
                IsStatusError |-> "IsStatusError"]
  /\ newOutcome = [result |-> "ok", version |-> version]
  /\ registry = SeriesNames
  /\ applicationInfo = GaugeSet(Empty, version, 1)
  /\ InitSeries
  /\ InitRequests
  /\ InitCheckers

InitReq == Constructed(<<"v", "1">>, DefaultErrorMessageKey) /\ budget = MaxReqOps

InitDep == Constructed(<<"v", "1">>, DefaultErrorMessageKey) /\ budget = MaxDepOps

RequestStep ==
  \/ \E r \in Requests, proto \in Protos, method \in Methods, a \in Arrivals :
       Arrive(r, proto, method, a[1], a[2])
  \/ \E r \in Requests, code \in StatusCodes : WriteHeader(r, code)
  \/ \E r \in Requests, length \in WriteLens, n \in WriteResults : Write(r, length, n)
  \/ \E r \in Requests, n \in WriteResults : WriteCount(r, n)
  \/ \E r \in Requests, v \in HandlerValues : SetErrorHeader(r, v)
  \/ \E r \in Requests, d \in Durations : Return(r, d)
  \/ \E r \in Requests : CollectSize(r)
  \/ \E f \in Classifiers : SetIsStatusError(f)

CheckerStep ==
  \/ \E c \in Checkers, name \in DependencyNames, p \in Periods :
       AddDependencyChecker(c, name, p)
  \/ TimePasses
  \/ \E c \in Checkers : Switch(c)
  \/ \E c \in Checkers : Receive(c)
  \/ \E c \in Checkers : CheckReturns(c)
  \/ \E c \in Checkers : SetDependencyUP(c)

Next ==
  \/ \E v \in Versions, k \in KeyArgs : New(v, k)
  \/ \E l \in DependencyLabels, s \in Seconds : CollectDependencyTime(l, s)
  \/ RequestStep
  \/ CheckerStep

Spec == Init /\ [][Next]_vars

SpecReq == InitReq /\ [][RequestStep]_vars

SpecDep == InitDep /\ [][CheckerStep]_vars

\* the goroutine of a checker is scheduled, and Check returns
FairSpecDep ==
  /\ SpecDep
  /\ \A c \in Checkers :
       /\ WF_vars(Receive(c))
       /\ WF_vars(CheckReturns(c))
       /\ WF_vars(SetDependencyUP(c))

(***************************************************************************)
(* Vocabulary of the properties.                                           *)
(***************************************************************************)
\* collectTime has been called for request r
Observed(r) == pc[r] \in {"size", "done"}
\* collectTime and collectSize have both been called for request r
Done(r) == pc[r] = "done"

StatusLabel(r) == rec[r].labels[2]
IsErrorLabel(r) == rec[r].labels[5]
ErrorMessageLabel(r) == rec[r].labels[6]

HistogramCount(h, labels) == IF labels \in DOMAIN h THEN h[labels].count ELSE 0
HistogramSum(h, labels) == IF labels \in DOMAIN h THEN h[labels].sum ELSE 0
CounterValue(c, labels) == IF labels \in DOMAIN c THEN c[labels] ELSE 0

\* the decimal form of the status codes of the model, written out
Decimal(code) ==
  CASE code = 199 -> "199" [] code = 200 -> "200" [] code = 399 -> "399"
    [] code = 400 -> "400"

\* the status a request ends with: the last code set, 200 when none was set
FinalStatus(r) == IF seen[r].explicit = 0 THEN 200 ELSE seen[r].explicit

FirstValue(values) == IF values = << >> THEN "" ELSE Head(values)

RECURSIVE SumOver(_, _)
SumOver(S, f) ==
  IF S = {} THEN 0
  ELSE LET x == CHOOSE y \in S : TRUE IN f[x] + SumOver(S \ {x}, f)

(***************************************************************************)
(* C1: the status label of both observations of a request is the decimal   *)
(* form of the last code the inner handler gave to WriteHeader, "200" when *)
(* it gave none, wherever its Write calls fall.                            *)
(***************************************************************************)
C1_StatusLabel ==
  \A r \in Requests :
    /\ Observed(r) =>
         /\ StatusLabel(r) = Decimal(FinalStatus(r))
         /\ rec[r].labels \in DOMAIN reqDuration
    /\ Done(r) => rec[r].labels \in DOMAIN respSize

\* a request that wrote, set two codes and was recorded under the second
C1_Witness ==
  \E r \in Requests :
    /\ Done(r)
    /\ seen[r].codes = 2
    /\ seen[r].writes > 0
    /\ seen[r].explicit = 399
    /\ StatusLabel(r) = "399"

(***************************************************************************)
(* C2 as claimed: the size recorded for a request is the sum of len(b)     *)
(* over its Write calls, short and failed writes included.                 *)
(***************************************************************************)
C2_SizeIsSumOfLengths ==
  \A r \in Requests : Done(r) => rec[r].size = seen[r].lens

(***************************************************************************)
(* C2 amended: collectSize raises response_size_bytes of the request's     *)
(* label tuple by the sum of the counts the underlying writer returned for *)
(* the request's Write calls, and leaves the other tuples alone; that sum  *)
(* is the sum of len(b) when no write was cut short.                       *)
(***************************************************************************)
C2_SizeIsSumOfCounts ==
  [][\A r \in Requests :
       (pc[r] = "size" /\ pc'[r] = "done") =>
         /\ CounterValue(respSize', rec[r].labels)
              = CounterValue(respSize, rec[r].labels) + seen[r].ns
         /\ \A l \in DOMAIN respSize' \ {rec[r].labels} :
              l \in DOMAIN respSize /\ respSize'[l] = respSize[l]
         /\ rec'[r].size = seen[r].ns]_vars

\* a request recorded after two writes, one of them cut short
C2_Witness ==
  \E r \in Requests :
    /\ Done(r)
    /\ seen[r].writes = 2
    /\ seen[r].lens = 4
    /\ seen[r].ns = 3
    /\ respSize[rec[r].labels] = 3

(***************************************************************************)
(* C3: the isError label of a request is "true" exactly when the           *)
(* classifier held by Monitor.IsStatusError as the request completes       *)
(* answers true for the final status; the default classifier answers true  *)
(* exactly for status < 200 and status >= 400.                             *)
(***************************************************************************)
ExpectedIsError(classifier, code) ==
  IF classifier = "IsStatusError" THEN code < 200 \/ code >= 400 ELSE code >= 300

C3_IsErrorLabel ==
  /\ \A r \in Requests :
       Observed(r) =>
         /\ IsErrorLabel(r) \in {"true", "false"}
         /\ IsErrorLabel(r) = "true"
              <=> ExpectedIsError(seen[r].classifier, FinalStatus(r))
  /\ IsStatusError(199) /\ ~IsStatusError(200) /\ ~IsStatusError(399)
  /\ IsStatusError(400)

\* a request that ended with 199 under the default classifier, recorded as an error
C3_Witness ==
  \E r \in Requests :
    /\ Done(r)
    /\ seen[r].classifier = "IsStatusError"
    /\ seen[r].explicit = 199
    /\ IsErrorLabel(r) = "true"

(***************************************************************************)
(* C4 as claimed: when the configured header is present on the inbound     *)
(* request, the errorMessage label is the value it had there, and the      *)
(* header is gone from the request afterwards.                             *)
(***************************************************************************)
InboundValue(r) ==
  IF CanonicalMIMEHeaderKey(monitor.errorMessageKey) = "Error-Message"
  THEN FirstValue(seen[r].inbound) ELSE ""

C4_LabelIsInboundHeader ==
  \A r \in Requests :
    Observed(r) =>
      /\ InboundValue(r) # "" => ErrorMessageLabel(r) = InboundValue(r)
      /\ HeaderGet(req[r].Header, monitor.errorMessageKey) = ""

(***************************************************************************)
(* C4 amended: the errorMessage label of both observations is the value    *)
(* the configured header has on the request when the inner handler         *)
(* returns: the inbound value if the handler left the header alone, the    *)
(* value the handler set otherwise, "" when the header is absent; the      *)
(* middleware then removes the header, so a later read gives "".           *)
(***************************************************************************)
ValueAtReturn(r) ==
  IF CanonicalMIMEHeaderKey(monitor.errorMessageKey) = "Error-Message"
  THEN FirstValue(seen[r].current) ELSE ""

C4_LabelIsHeaderAtReturn ==
  \A r \in Requests :
    Observed(r) =>
      /\ ErrorMessageLabel(r) = ValueAtReturn(r)
      /\ seen[r].sets = 0 => ErrorMessageLabel(r) = InboundValue(r)
      /\ HeaderGet(req[r].Header, monitor.errorMessageKey) = ""
      /\ req[r].Header[CanonicalMIMEHeaderKey(monitor.errorMessageKey)] = << >>

\* a request that came with the header and was recorded under the handler's value
C4_Witness ==
  \E r \in Requests :
    /\ Done(r)
    /\ monitor.errorMessageKey = DefaultErrorMessageKey
    /\ seen[r].inbound = <<"boom">>
    /\ seen[r].sets = 1
    /\ ErrorMessageLabel(r) = "oops"
    /\ req[r].Header = NoHeader

(***************************************************************************)
(* C10: whatever the interleaving, for every label tuple the count of      *)
(* request_seconds is the number of requests observed under it and         *)
(* response_size_bytes is the sum of the byte counts of the requests       *)
(* recorded under it; and an interceptor's counter together with the       *)
(* counts of the Write calls still in flight is the sum of the counts the  *)
(* underlying writer returned.                                             *)
(***************************************************************************)
InFlightBytes(r) == SumOver(WriteResults, [n \in WriteResults |-> n * inflight[r][n]])

C10_NoLostUpdates ==
  /\ \A l \in DOMAIN reqDuration \cup DOMAIN respSize
              \cup {rec[r].labels : r \in {q \in Requests : Observed(q)}} :
       /\ HistogramCount(reqDuration, l)
            = Cardinality({r \in Requests : Observed(r) /\ rec[r].labels = l})
       /\ CounterValue(respSize, l)
            = SumOver({r \in Requests : Done(r) /\ rec[r].labels = l},
                      [r \in Requests |-> seen[r].ns])
  /\ \A r \in Requests :
       pc[r] \in {"handler", "size", "done"} =>
         Count(rw[r]) + InFlightBytes(r) = seen[r].ns

\* two requests recorded under one label tuple, each with bytes written
C10_Witness ==
  \E r1, r2 \in Requests :
    /\ r1 # r2
    /\ Done(r1) /\ Done(r2)
    /\ rec[r1].labels = rec[r2].labels
    /\ seen[r1].ns > 0 /\ seen[r2].ns > 0
    /\ reqDuration[rec[r1].labels].count = 2
    /\ respSize[rec[r1].labels] = seen[r1].ns + seen[r2].ns

(***************************************************************************)
(* C5: a call of New with an empty or whitespace-only version returns an   *)
(* error, no Monitor, does not panic, and leaves the registry and every    *)
(* series as they were.                                                    *)
(***************************************************************************)
Blank(version) == \A i \in 1..Len(version) : version[i] \in {" ", "\t", "\n", "\r"}

C5_BlankVersionRejected ==
  [][\A v \in Versions, k \in KeyArgs :
       (Blank(v) /\ New(v, k)) =>
         /\ newOutcome'.result = "error"
         /\ monitor' = monitor
         /\ UNCHANGED backend]_vars

\* New was called with a whitespace-only version: an error, nothing registered
C5_Witness ==
  /\ newOutcome = [result |-> "error", version |-> <<" ", "\t">>]
  /\ monitor = NoMonitor
  /\ registry = {}
  /\ applicationInfo = Empty

(***************************************************************************)
(* C6: when New has succeeded with version X, application_info holds the   *)
(* one sample version=X with value 1, and no step changes application_info *)
(* once it holds a sample.                                                 *)
(***************************************************************************)
C6_ApplicationInfo ==
  /\ [](newOutcome.result = "ok" => applicationInfo = (newOutcome.version :> 1))
  /\ [](monitor.constructed <=> applicationInfo # Empty)
  /\ [][applicationInfo # Empty => applicationInfo' = applicationInfo]_vars

\* after New: a request was recorded and a checker's result stored, the sample stands
C6_Witness ==
  /\ monitor.constructed
  /\ \E r \in Requests : Done(r)
  /\ dependencyUP # Empty
  /\ \E v \in Versions : applicationInfo = (v :> 1)

(***************************************************************************)
(* C9: a call CollectDependencyTime(labels..., seconds) adds one           *)
(* observation of value seconds to dependency_request_seconds under        *)
(* exactly the labels given, and changes no other label tuple and no other *)
(* series.                                                                 *)
(***************************************************************************)
C9_CollectDependencyTime ==
  [][\A l \in DependencyLabels, sec \in Seconds :
       collected' = Append(collected, <<l, sec>>) =>
         /\ HistogramCount(dependencyReqDuration', l)
              = HistogramCount(dependencyReqDuration, l) + 1
         /\ HistogramSum(dependencyReqDuration', l)
              = HistogramSum(dependencyReqDuration, l) + sec
         /\ DOMAIN dependencyReqDuration' = DOMAIN dependencyReqDuration \cup {l}
         /\ \A o \in DOMAIN dependencyReqDuration \ {l} :
              dependencyReqDuration'[o] = dependencyReqDuration[o]
         /\ UNCHANGED <<registry, reqDuration, respSize, dependencyUP,
                        applicationInfo>>]_vars

\* two calls with the README's labels: two observations, 0.42-like values summed
C9_Witness ==
  LET l == <<"svc", "http", "200", "GET", "/x", "false", "">> IN
    /\ collected = <<<<l, 42>>, <<l, 10>>>>
    /\ dependencyReqDuration[l] = [count |-> 2, sum |-> 52]

(***************************************************************************)
(* Vocabulary of the dependency checks.                                    *)
(***************************************************************************)
Registered(c) == task[c].state # "none"
\* c is the only registered checker of its name
Sole(c) ==
  /\ Registered(c)
  /\ \A d \in Checkers \ {c} : Registered(d) => task[d].name # task[c].name
GaugeSetFor(c) == task[c].name \in DOMAIN dependencyUP
Gauge(c) == dependencyUP[task[c].name]
\* Check results of c that Set has stored: none yet
NothingStored(c) ==
  checks[c].done = 0 \/ (checks[c].done = 1 /\ task[c].state = "setting")

(***************************************************************************)
(* C7 as claimed: a checker that answers UP has its gauge at 1 within one  *)
(* checking period after registration.                                     *)
(***************************************************************************)
C7_UpWithinOnePeriod ==
  \A c \in Checkers :
    (/\ Sole(c)
     /\ checks[c].switches = 0
     /\ checkerStatus[c] = UP
     /\ now - task[c].regAt >= task[c].period)
      => (GaugeSetFor(c) /\ Gauge(c) = 1)

(***************************************************************************)
(* C7 amended: the gauge of a checker is not set before the first tick,    *)
(* one checking period after registration; once a tick is delivered and    *)
(* the checker keeps answering s, the gauge comes to read the encoding of  *)
(* s (1 for UP, and 0 for DOWN after a switch), when the goroutine has     *)
(* taken the tick, Check has returned and the result is stored.            *)
(***************************************************************************)
C7_GaugeFollowsTicks ==
  /\ [](\A x \in DOMAIN dependencyUP :
          \E c \in Checkers :
            /\ Registered(c)
            /\ task[c].name = x
            /\ now - task[c].regAt >= task[c].period)
  /\ \A c \in Checkers :
       /\ (task[c].tick /\ [](checkerStatus[c] = UP))
            ~> (GaugeSetFor(c) /\ Gauge(c) = 1)
       /\ (task[c].tick /\ [](checkerStatus[c] = DOWN))
            ~> (GaugeSetFor(c) /\ Gauge(c) = 0)

\* a checker answered UP, then DOWN: the gauge read 1 and now reads 0
C7_Witness ==
  \E c \in Checkers :
    /\ Sole(c)
    /\ checks[c].done = 2
    /\ checks[c].prev = UP
    /\ checks[c].last = DOWN
    /\ task[c].state = "waiting"
    /\ Gauge(c) = 0

(***************************************************************************)
(* C8 as claimed: in every state the gauge of X is absent with no Check    *)
(* completed, or the encoding of the result of the most recently completed *)
(* Check of the checker named X.                                           *)
(***************************************************************************)
C8_GaugeIsLastCompletedCheck ==
  \A c \in Checkers :
    Sole(c) =>
      IF checks[c].done = 0 THEN ~GaugeSetFor(c)
      ELSE GaugeSetFor(c) /\ Gauge(c) = checks[c].last

(***************************************************************************)
(* C8 amended: the gauge of X is absent until a result is stored, and then *)
(* the encoding of the result of the last Check whose result was stored:   *)
(* for the one checker named X that is the most recently completed Check,  *)
(* except from that Check's return to the Set that follows it, when the    *)
(* gauge still shows the Check before; and a gauge never shows a value     *)
(* that no Check of a checker of that name returned.                       *)
(***************************************************************************)
C8_GaugeIsLastStoredCheck ==
  /\ \A c \in Checkers :
       Sole(c) =>
         IF NothingStored(c) THEN ~GaugeSetFor(c)
         ELSE /\ GaugeSetFor(c)
              /\ Gauge(c) = IF task[c].state = "setting" THEN checks[c].prev
                            ELSE checks[c].last
  /\ \A x \in DOMAIN dependencyUP :
       \E c \in Checkers :
         /\ Registered(c)
         /\ task[c].name = x
         /\ \E s \in checks[c].results : dependencyUP[x] = IF s = UP THEN 1 ELSE 0

\* Check has just returned DOWN after UP: the gauge still reads 1
C8_Witness ==
  \E c \in Checkers :
    /\ Sole(c)
    /\ task[c].state = "setting"
    /\ checks[c].done = 2
    /\ checks[c].prev = UP
    /\ checks[c].last = DOWN
    /\ Gauge(c) = 1
(***************************************************************************)
(* C11: a Monitor built by New with a valid version and an empty           *)
(* error-message key uses the key "error-message": it never holds the      *)
(* empty key, and the errorMessage label of a request is the value the     *)
(* "error-message" header has when the inner handler returns.              *)
(***************************************************************************)
C11_DefaultKeyUsed ==
  /\ monitor.constructed => monitor.errorMessageKey # ""
  /\ \A r \in Requests :
       Observed(r) => ErrorMessageLabel(r) = FirstValue(seen[r].current)
(***************************************************************************)
(* C12: the handler returned by Prometheus never fails: every request that *)
(* has arrived, one without a current route or without a path template     *)
(* included, has had the inner handler invoked and no panic raised.        *)
(***************************************************************************)
C12_MiddlewareNeverFails ==
  \A r \in Requests :
    pc[r] # "idle" => pc[r] \in {"handler", "size", "done"}
(***************************************************************************)
(* C13: every request gets exactly one duration observation and exactly    *)
(* one size increment, both after the inner handler returned and with the  *)
(* final status and the final byte count; nothing is recorded before or    *)
(* while the inner handler runs.                                           *)
(***************************************************************************)
C13_OneObservationEach ==
  \A r \in Requests :
    /\ pc[r] \in {"idle", "handler"} => rec[r].times = 0 /\ rec[r].sizes = 0
    /\ pc[r] \in {"done", "panicked"} => rec[r].times = 1 /\ rec[r].sizes = 1
    /\ Observed(r) => StatusLabel(r) = Decimal(FinalStatus(r))
    /\ Done(r) => rec[r].size = Count(rw[r])
(***************************************************************************)
(* C14: ticks are serialized per checker: at most one call of Check is in  *)
(* progress for a checker at any time, also when Check outlasts the        *)
(* checking period (a tick that fires meanwhile waits in the ticker's      *)
(* channel or is dropped, and starts no second call); and a step of one    *)
(* checker's task changes nothing of another checker's task.               *)
(***************************************************************************)
C14_TicksSerialized ==
  /\ [](\A c \in Checkers :
          /\ task[c].running <= 1
          /\ task[c].running = 1 <=> task[c].state = "checking")
  /\ [][\A c \in Checkers :
          (Receive(c) \/ CheckReturns(c) \/ SetDependencyUP(c))
            => \A d \in Checkers \ {c} : task'[d] = task[d]]_vars

\* c1's Check has outlasted its period (a new tick is waiting) and is still the
\* only call for c1, while c2's task is running its own Check
C14_Witness ==
  /\ task["c1"].state = "checking"
  /\ task["c1"].tick
  /\ now - task["c1"].regAt >= 2 * task["c1"].period
  /\ task["c1"].running = 1
  /\ task["c2"].state = "checking"
  /\ task["c2"].running = 1
====
